---------------------------- MODULE Spec2Model ----------------------------
(***************************************************************************)
(* A model of discocli (src/discocli.py): the date window validator, the   *)
(* episode item parser, the pagination walk obtener_episodios, the search  *)
(* by episode number, the output formatter, the downloader and the listar  *)
(* command.                                                                *)
(*                                                                         *)
(* Text is modelled as a sequence of tokens.  Digits, "." and blanks are   *)
(* always one-character tokens, so that str.strip, str.replace and the     *)
(* regular expression of the search act on them as they do on characters;  *)
(* other runs of characters may be kept together as one token.  The empty  *)
(* string is the empty sequence.  A dict is a function whose DOMAIN is the *)
(* set of its keys.                                                        *)
(***************************************************************************)
EXTENDS Integers, Sequences, FiniteSets, TLC

VARIABLES
    \* obtener_episodios: the loop's locals and the requests issued so far
    page, episodios, pcWalk, fetchLog,
    \* the episode item parser on one item
    item, parsed,
    \* validar_fecha on one (mes, anio)
    mesV, anioV, retV,
    \* the listar command: its arguments, what it printed, the requests issued
    argsL, salidaL, peticionesL,
    \* buscar_episodio_por_numero
    numero, fecha_actual, pcBuscar, resultado,
    mesesRecorridos, listaHallada, coincidenciaPrevia,
    \* formatear_salida
    episodiosF, formatoF, salidaF,
    \* descargar_episodio: the cache directory, the requests issued, the last call
    archivos, peticionesD, ultima, descargados

walkVars == <<page, episodios, pcWalk, fetchLog>>
parseVars == <<item, parsed>>
fechaVars == <<mesV, anioV, retV>>
listarVars == <<argsL, salidaL, peticionesL>>
buscarVars == <<numero, fecha_actual, pcBuscar, resultado,
                mesesRecorridos, listaHallada, coincidenciaPrevia>>
formatoVars == <<episodiosF, formatoF, salidaF>>
descargarVars == <<archivos, peticionesD, ultima, descargados>>
vars == <<walkVars, parseVars, fechaVars, listarVars, buscarVars,
          formatoVars, descargarVars>>

-----------------------------------------------------------------------------
(* Bounds of the model *)

MaxPages == 2

MaxItems == 2

YearMargin == 2

MaxRegistros == 3

MaxPeticiones == 3

-----------------------------------------------------------------------------
(* Text and dict helpers *)

Digitos == {"0", "1", "2", "3", "4", "5", "6", "7", "8", "9"}

Espacios == {" ", "\t", "\n"}

RECURSIVE LStrip(_)
LStrip(t) ==
    IF t # <<>> /\ Head(t) \in Espacios THEN LStrip(Tail(t)) ELSE t

RECURSIVE RStrip(_)
RStrip(t) ==
    IF t # <<>> /\ t[Len(t)] \in Espacios
    THEN RStrip(SubSeq(t, 1, Len(t) - 1))
    ELSE t

\* str.strip()
Strip(t) == RStrip(LStrip(t))

\* str.replace(tok, '') for a one-token pattern
Replace(t, tok) == SelectSeq(t, LAMBDA c : c # tok)

\* dict.get(k, default), and Tag.get(k, default) on a tag's attributes
Get(d, k, default) == IF k \in DOMAIN d THEN d[k] ELSE default

DictVacio == [k \in {} |-> <<>>]

RECURSIVE Concat(_)
Concat(ss) == IF ss = <<>> THEN <<>> ELSE Head(ss) \o Concat(Tail(ss))

SeqsHasta(S, n) == UNION {[1..k -> S] : k \in 0..n}

-----------------------------------------------------------------------------
(* Markup: an episode item (li.elem_) and its sub-elements *)

SinTitulo == <<"Sin título">>

PrefijoFecha == "Fecha de Emisión: "

PrefijoDuracion == "Duración: "

TituloA == <<"1", "0", "9", "3", "9", ".", " ", "Some Show">>

TituloB == <<"1", "0", "9", "3", "9", "0", ".", " ", "Other Show">>

TituloC == <<"1", "0", ".", "9", "3", "9", " ", "Otro">>

\* A sub-element select_one() did not find, and one it found
Ausente == [presente |-> FALSE, text |-> <<>>, attrs |-> DictVacio]

Tag(text, attrs) == [presente |-> TRUE, text |-> text, attrs |-> attrs]

\* The data-setup attribute: absent, not JSON, JSON that is no object, an object
DataSetups ==
    {[tipo |-> "ausente", obj |-> DictVacio],
     [tipo |-> "malformado", obj |-> DictVacio],
     [tipo |-> "no_objeto", obj |-> DictVacio],
     [tipo |-> "objeto", obj |-> DictVacio],
     [tipo |-> "objeto", obj |-> [title |-> TituloB]],
     [tipo |-> "objeto", obj |-> [idAsset |-> <<"5512345">>]],
     [tipo |-> "objeto", obj |-> [title |-> TituloB, idAsset |-> <<"5512345">>]]}

MainTitles == {Ausente, Tag(<<"\n", " ">> \o TituloA \o <<" ", "\n">>, DictVacio)}

DateMis ==
    {Ausente, Tag(<<>>, DictVacio),
     Tag(<<>>, "aria-label" :> <<PrefijoFecha, "12/03/2020">>)}

Durations ==
    {Ausente, Tag(<<>>, DictVacio),
     Tag(<<>>, "aria-label" :> <<PrefijoDuracion, "01:00:05">>)}

GotoMedias ==
    {Ausente, Tag(<<>>, DictVacio),
     Tag(<<>>, "href" :> <<"https://www.rtve.es/play/audios/discopolis/5512345/">>)}

Descriptions == {Ausente, Tag(<<" ", "Una sesión", "\n">>, DictVacio)}

Items ==
    [data_setup : DataSetups, maintitle : MainTitles, datemi : DateMis,
     duration : Durations, goto_media : GotoMedias, description : Descriptions]

\* json.loads(item.get('data-setup', '{}'))
JsonLoads(it) ==
    IF it.data_setup.tipo = "ausente"
    THEN [tipo |-> "objeto", obj |-> DictVacio]
    ELSE it.data_setup

\* ParseItem with the untitled fallback left out: an item without a title
\* element and without a title in its data-setup gets the empty title
ParseItemSinDefecto(it) ==
    LET cargado == JsonLoads(it) IN
    IF cargado.tipo = "malformado"
    THEN [ok |-> FALSE, error |-> "JSONDecodeError", ep |-> DictVacio]
    ELSE IF cargado.tipo = "no_objeto"
    THEN [ok |-> FALSE, error |-> "AttributeError", ep |-> DictVacio]
    ELSE
      LET data_setup == cargado.obj
          titulo == IF it.maintitle.presente
                    THEN Strip(it.maintitle.text)
                    ELSE Get(data_setup, "title", <<>>)
          fecha == IF it.datemi.presente
                   THEN Replace(Get(it.datemi.attrs, "aria-label", <<>>), PrefijoFecha)
                   ELSE <<>>
          duracion == IF it.duration.presente
                      THEN Replace(Get(it.duration.attrs, "aria-label", <<>>), PrefijoDuracion)
                      ELSE <<>>
          url_episodio == IF it.goto_media.presente
                          THEN Get(it.goto_media.attrs, "href", <<>>)
                          ELSE <<>>
          id_asset == Get(data_setup, "idAsset", <<>>)
          episodio == [id |-> id_asset, titulo |-> titulo, url |-> url_episodio,
                       fecha |-> fecha, duracion |-> duracion]
      IN [ok |-> TRUE, error |-> "",
          ep |-> IF it.description.presente
                 THEN episodio @@ [descripcion |-> Strip(it.description.text)]
                 ELSE episodio]

\* The body of the loop over one page's items: the record built from one item,
\* or the exception that makes the loop skip it
ParseItem(it) ==
    LET cargado == JsonLoads(it) IN
    IF cargado.tipo = "malformado"
    THEN [ok |-> FALSE, error |-> "JSONDecodeError", ep |-> DictVacio]
    ELSE IF cargado.tipo = "no_objeto"
    THEN [ok |-> FALSE, error |-> "AttributeError", ep |-> DictVacio]
    ELSE
      LET data_setup == cargado.obj
          titulo == IF it.maintitle.presente
                    THEN Strip(it.maintitle.text)
                    ELSE Get(data_setup, "title", SinTitulo)
          fecha == IF it.datemi.presente
                   THEN Replace(Get(it.datemi.attrs, "aria-label", <<>>), PrefijoFecha)
                   ELSE <<>>
          duracion == IF it.duration.presente
                      THEN Replace(Get(it.duration.attrs, "aria-label", <<>>), PrefijoDuracion)
                      ELSE <<>>
          url_episodio == IF it.goto_media.presente
                          THEN Get(it.goto_media.attrs, "href", <<>>)
                          ELSE <<>>
          id_asset == Get(data_setup, "idAsset", <<>>)
          episodio == [id |-> id_asset, titulo |-> titulo, url |-> url_episodio,
                       fecha |-> fecha, duracion |-> duracion]
      IN [ok |-> TRUE, error |-> "",
          ep |-> IF it.description.presente
                 THEN episodio @@ [descripcion |-> Strip(it.description.text)]
                 ELSE episodio]

\* for item in items: ... episodios.append(episodio) / continue
RECURSIVE ParsePage(_)
ParsePage(items) ==
    IF items = <<>> THEN <<>>
    ELSE LET r == ParseItem(Head(items)) IN
         (IF r.ok THEN <<r.ep>> ELSE <<>>) \o ParsePage(Tail(items))

-----------------------------------------------------------------------------
(* The pagination walk obtener_episodios *)

ItemVacio ==
    [data_setup |-> [tipo |-> "ausente", obj |-> DictVacio], maintitle |-> Ausente,
     datemi |-> Ausente, duration |-> Ausente, goto_media |-> Ausente,
     description |-> Ausente]

ItemCompleto ==
    [data_setup |-> [tipo |-> "objeto", obj |-> [title |-> TituloB, idAsset |-> <<"5512345">>]],
     maintitle |-> Tag(<<"\n", " ">> \o TituloA \o <<" ", "\n">>, DictVacio),
     datemi |-> Tag(<<>>, "aria-label" :> <<PrefijoFecha, "12/03/2020">>),
     duration |-> Tag(<<>>, "aria-label" :> <<PrefijoDuracion, "01:00:05">>),
     goto_media |-> Tag(<<>>, "href" :> <<"https://www.rtve.es/play/audios/discopolis/5512345/">>),
     description |-> Tag(<<" ", "Una sesión", "\n">>, DictVacio)]

ItemMalformado == [ItemCompleto EXCEPT !.data_setup = [tipo |-> "malformado", obj |-> DictVacio]]

ItemsMuestra == {ItemVacio, ItemCompleto, ItemMalformado}

\* What one GET of a listing page can come to: a transport error, a non-success
\* status (raise_for_status), or markup with its items and its .siguiente marker
Fallos ==
    {[tipo |-> t, items |-> <<>>, siguiente |-> FALSE] :
        t \in {"error_transporte", "error_http"}}

Paginas(listas) == [tipo : {"ok"}, items : listas, siguiente : BOOLEAN]

Respuestas == Paginas(SeqsHasta(ItemsMuestra, MaxItems)) \cup Fallos

\* Iteracion without "if not items: break": an empty page falls through to the
\* .siguiente check
IteracionSinCorteVacio(w, resp) ==
    IF resp.tipo # "ok"
    THEN [w EXCEPT !.pc = "done"]
    ELSE LET eps == w.episodios \o ParsePage(resp.items) IN
         IF ~resp.siguiente
         THEN [w EXCEPT !.episodios = eps, !.pc = "done"]
         ELSE [w EXCEPT !.episodios = eps, !.page = w.page + 1]

\* Iteracion putting a page's records before those already collected
IteracionAntepone(w, resp) ==
    IF resp.tipo # "ok"
    THEN [w EXCEPT !.pc = "done"]
    ELSE IF resp.items = <<>>
    THEN [w EXCEPT !.pc = "done"]
    ELSE LET eps == ParsePage(resp.items) \o w.episodios IN
         IF ~resp.siguiente
         THEN [w EXCEPT !.episodios = eps, !.pc = "done"]
         ELSE [w EXCEPT !.episodios = eps, !.page = w.page + 1]

\* Iteracion dropping what was collected when a request fails
IteracionDescartaEnFallo(w, resp) ==
    IF resp.tipo # "ok"
    THEN [w EXCEPT !.episodios = <<>>, !.pc = "done"]
    ELSE IF resp.items = <<>>
    THEN [w EXCEPT !.pc = "done"]
    ELSE LET eps == w.episodios \o ParsePage(resp.items) IN
         IF ~resp.siguiente
         THEN [w EXCEPT !.episodios = eps, !.pc = "done"]
         ELSE [w EXCEPT !.episodios = eps, !.page = w.page + 1]

\* Iteracion stopping on the number of records parsed, not of items found
IteracionCuentaParseados(w, resp) ==
    IF resp.tipo # "ok"
    THEN [w EXCEPT !.pc = "done"]
    ELSE IF ParsePage(resp.items) = <<>>
    THEN [w EXCEPT !.pc = "done"]
    ELSE LET eps == w.episodios \o ParsePage(resp.items) IN
         IF ~resp.siguiente
         THEN [w EXCEPT !.episodios = eps, !.pc = "done"]
         ELSE [w EXCEPT !.episodios = eps, !.page = w.page + 1]

\* One iteration of the while loop, on the loop's locals w and the outcome of
\* its GET
Iteracion(w, resp) ==
    IF resp.tipo # "ok"
    THEN [w EXCEPT !.pc = "done"]
    ELSE IF resp.items = <<>>
    THEN [w EXCEPT !.pc = "done"]
    ELSE LET eps == w.episodios \o ParsePage(resp.items) IN
         IF ~resp.siguiente
         THEN [w EXCEPT !.episodios = eps, !.pc = "done"]
         ELSE [w EXCEPT !.episodios = eps, !.page = w.page + 1]

WalkInicial == [page |-> 1, episodios |-> <<>>, pc |-> "fetch"]

\* The GET of the current page and the rest of that iteration
FetchPage ==
    /\ pcWalk = "fetch"
    /\ page <= MaxPages
    /\ \E resp \in Respuestas :
         LET w == Iteracion([page |-> page, episodios |-> episodios, pc |-> pcWalk], resp) IN
         /\ page' = w.page
         /\ episodios' = w.episodios
         /\ pcWalk' = w.pc
         /\ fetchLog' = Append(fetchLog, [page |-> page, resp |-> resp])
    /\ UNCHANGED <<parseVars, fechaVars, listarVars, buscarVars, formatoVars, descargarVars>>

-----------------------------------------------------------------------------
(* The parser on one item *)

Parse ==
    /\ parsed = [ok |-> FALSE, error |-> "pendiente", ep |-> DictVacio]
    /\ parsed' = ParseItem(item)
    /\ UNCHANGED <<item, walkVars, fechaVars, listarVars, buscarVars, formatoVars, descargarVars>>

-----------------------------------------------------------------------------
(* The date window and validar_fecha *)

\* datetime.MINYEAR and datetime.MAXYEAR: the years datetime() accepts
MINYEAR == 1

MAXYEAR == 9999

\* datetime(year, month, day) for a day every month has: the value, or ValueError
Datetime(year, month, day) ==
    IF year \in MINYEAR..MAXYEAR /\ month \in 1..12 /\ day \in 1..28
    THEN [excepcion |-> "", valor |-> <<year, month, day>>]
    ELSE [excepcion |-> "ValueError", valor |-> <<0, 0, 0>>]

FECHA_INICIO == <<2008, 2, 1>>

FECHA_FIN == <<2021, 6, 30>>

\* a < b on datetimes at midnight
DatetimeLt(a, b) ==
    \/ a[1] < b[1]
    \/ a[1] = b[1] /\ a[2] < b[2]
    \/ a[1] = b[1] /\ a[2] = b[2] /\ a[3] < b[3]

\* a <= b on datetimes at midnight
DatetimeLe(a, b) ==
    \/ a[1] < b[1]
    \/ a[1] = b[1] /\ a[2] < b[2]
    \/ a[1] = b[1] /\ a[2] = b[2] /\ a[3] <= b[3]

\* What a call comes to: the value returned, or the exception raised
Retorna(v) == [excepcion |-> "", valor |-> v]

Lanza(e) == [excepcion |-> e, valor |-> FALSE]

validar_fecha(mes, anio) ==
    LET fecha == Datetime(anio, mes, 1) IN
    IF fecha.excepcion # ""
    THEN Lanza(fecha.excepcion)
    ELSE Retorna(DatetimeLe(FECHA_INICIO, fecha.valor) /\ DatetimeLe(fecha.valor, FECHA_FIN))

\* The years tried: around the two ends of the window and of datetime's range
Anios ==
    (MINYEAR - YearMargin .. MINYEAR + YearMargin)
    \cup (FECHA_INICIO[1] - YearMargin .. FECHA_FIN[1] + YearMargin)
    \cup (MAXYEAR - YearMargin .. MAXYEAR + YearMargin)

Pendiente == [excepcion |-> "pendiente", valor |-> FALSE]

Validar ==
    /\ retV = Pendiente
    /\ retV' = validar_fecha(mesV, anioV)
    /\ UNCHANGED <<mesV, anioV, walkVars, parseVars, listarVars, buscarVars, formatoVars, descargarVars>>

-----------------------------------------------------------------------------
(* formatear_salida *)

\* An item titled TituloB with no description, and one whose title comes from
\* its data-setup
ItemB ==
    [ItemCompleto EXCEPT !.maintitle = Tag(TituloB, DictVacio), !.description = Ausente]

ItemC ==
    [ItemCompleto EXCEPT
        !.data_setup = [tipo |-> "objeto", obj |-> [title |-> TituloC]],
        !.maintitle = Ausente]

RegistrosMuestra == {ParseItem(it).ep : it \in {ItemVacio, ItemCompleto, ItemB, ItemC}}

\* The order in which the loop body inserts the keys of an episode dict
OrdenCampos == <<"id", "titulo", "url", "fecha", "duracion", "descripcion">>

\* dict.keys(), in insertion order
Claves(ep) == SelectSeq(OrdenCampos, LAMBDA k : k \in DOMAIN ep)

Rango(q) == {q[i] : i \in 1..Len(q)}

\* json.dumps of the list: each dict as its (key, value) pairs in key order
FormatoJson(eps) ==
    [i \in 1..Len(eps) |->
        LET ks == Claves(eps[i]) IN [j \in 1..Len(ks) |-> <<ks[j], eps[i][ks[j]]>>]]

\* csv.DictWriter(output, fieldnames=episodios[0].keys()) with its default
\* extrasaction='raise' and restval='': the rows written, each a list of cells,
\* or the ValueError for a dict with a key that is no field name
FormatoCsv(eps) ==
    IF eps = <<>> THEN Retorna(<<>>)
    ELSE LET fieldnames == Claves(eps[1]) IN
         IF \E i \in 1..Len(eps) : ~(DOMAIN eps[i] \subseteq Rango(fieldnames))
         THEN Lanza("ValueError")
         ELSE Retorna(
                <<[j \in 1..Len(fieldnames) |-> <<fieldnames[j]>>]>>
                \o [i \in 1..Len(eps) |->
                      [j \in 1..Len(fieldnames) |-> Get(eps[i], fieldnames[j], <<>>)]])

Separador == [i \in 1..40 |-> "-"]

\* The lines of one episode in the text format
LineasTexto(ep) ==
    <<<<"Título: ">> \o ep.titulo>>
    \o (IF Get(ep, "fecha", <<>>) # <<>> THEN <<<<"Fecha: ">> \o ep.fecha>> ELSE <<>>)
    \o (IF Get(ep, "duracion", <<>>) # <<>> THEN <<<<"Duración: ">> \o ep.duracion>> ELSE <<>>)
    \o (IF Get(ep, "programa", <<>>) # <<>> THEN <<<<"Programa: ">> \o ep.programa>> ELSE <<>>)
    \o (IF Get(ep, "emisora", <<>>) # <<>> THEN <<<<"Emisora: ">> \o ep.emisora>> ELSE <<>>)
    \o (IF Get(ep, "descripcion", <<>>) # <<>>
        THEN <<<<"Descripción: ">> \o ep.descripcion>> ELSE <<>>)
    \o (IF Get(ep, "url", <<>>) # <<>> THEN <<<<"URL: ">> \o ep.url>> ELSE <<>>)
    \o <<Separador>>

FormatoTexto(eps) == Concat([i \in 1..Len(eps) |-> LineasTexto(eps[i])])

Formatos == {"json", "csv", "texto"}

formatear_salida(eps, formato) ==
    IF formato = "json" THEN Retorna(FormatoJson(eps))
    ELSE IF formato = "csv" THEN FormatoCsv(eps)
    ELSE Retorna(FormatoTexto(eps))

Formatear ==
    /\ salidaF = Pendiente
    /\ salidaF' = formatear_salida(episodiosF, formatoF)
    /\ UNCHANGED <<episodiosF, formatoF, walkVars, parseVars, fechaVars, listarVars, buscarVars, descargarVars>>

-----------------------------------------------------------------------------
(* descargar_episodio *)

NumerosEpisodio == {<<"1", "0", "9", "3", "9">>, <<"1", "0", "9", "4", "0">>}

Urls == {<<"https://mediavod.rtve.es/a.mp3">>, <<"https://mediavod.rtve.es/b.mp3">>}

\* os.path.join(download_dir, f"discopolis_{numero}.mp3")
Ruta(num) == <<"~/Downloads/discopolis", "/", "discopolis_">> \o num \o <<".mp3">>

\* What the GET of the audio can come to: the whole body, an error raised by
\* requests.get or raise_for_status (before the file is opened), or an error
\* while the body is being written (after it)
Redes == {"ok", "error_transporte", "error_http", "error_stream"}

\* A file of the cache directory: not there, cut short by a failed download, whole
EstadosArchivo == {"ausente", "parcial", "completo"}

\* descargar_episodio without the os.path.exists test
DescargaSiempre(url, num, fs, red) ==
    IF red \in {"error_transporte", "error_http"}
    THEN [archivos |-> fs, peticiones |-> 1, ret |-> Lanza(red)]
    ELSE IF red = "error_stream"
    THEN [archivos |-> [fs EXCEPT ![num] = "parcial"], peticiones |-> 1, ret |-> Lanza(red)]
    ELSE [archivos |-> [fs EXCEPT ![num] = "completo"], peticiones |-> 1,
          ret |-> Retorna(Ruta(num))]

\* One call on the cache directory fs when the GET comes to red: the directory
\* after it, the number of requests it issued, and what it returned or raised
descargar_episodio(url, num, fs, red) ==
    IF fs[num] # "ausente"
    THEN [archivos |-> fs, peticiones |-> 0, ret |-> Retorna(Ruta(num))]
    ELSE IF red \in {"error_transporte", "error_http"}
    THEN [archivos |-> fs, peticiones |-> 1, ret |-> Lanza(red)]
    ELSE IF red = "error_stream"
    THEN [archivos |-> [fs EXCEPT ![num] = "parcial"], peticiones |-> 1, ret |-> Lanza(red)]
    ELSE [archivos |-> [fs EXCEPT ![num] = "completo"], peticiones |-> 1,
          ret |-> Retorna(Ruta(num))]

Descargar ==
    \E url \in Urls, num \in NumerosEpisodio, red \in Redes :
        LET r == descargar_episodio(url, num, archivos, red) IN
        /\ peticionesD + r.peticiones <= MaxPeticiones
        /\ archivos' = r.archivos
        /\ peticionesD' = peticionesD + r.peticiones
        /\ ultima' = [url |-> url, numero |-> num, existia |-> archivos[num] # "ausente",
                      archivosAntes |-> archivos, peticiones |-> r.peticiones,
                      descargadoAntes |-> num \in descargados, ret |-> r.ret]
        /\ descargados' = IF r.peticiones > 0 /\ r.ret.excepcion = ""
                          THEN descargados \cup {num} ELSE descargados
        /\ UNCHANGED <<walkVars, parseVars, fechaVars, listarVars, buscarVars, formatoVars>>

-----------------------------------------------------------------------------
(* obtener_episodios as one call, on what the site serves *)

\* The item lists of the pages a site is made of here
ListasMuestra ==
    {<<>>, <<ItemB>>, <<ItemB, ItemCompleto>>, <<ItemC, ItemCompleto>>,
     <<ItemVacio, ItemMalformado>>, <<ItemMalformado>>}

RespuestasMuestra == Paginas(ListasMuestra) \cup Fallos

\* The while loop run on a site: sitio[p] is what the GET of page p comes to
RECURSIVE Recorre(_, _, _)
Recorre(w, sitio, n) ==
    IF w.pc # "fetch" \/ w.page > Len(sitio)
    THEN [episodios |-> w.episodios, pc |-> w.pc, peticiones |-> n]
    ELSE Recorre(Iteracion(w, sitio[w.page]), sitio, n + 1)

\* The call for one month, on the pages the site serves for that month
obtener_episodios(mes, anio, sitio) == Recorre(WalkInicial, sitio, 0)

\* The sites: the pages served up to the one at which the walk returns
Sitios ==
    {s \in SeqsHasta(RespuestasMuestra, MaxPages) :
        LET r == Recorre(WalkInicial, s, 0) IN r.pc = "done" /\ r.peticiones = Len(s)}

-----------------------------------------------------------------------------
(* buscar_episodio_por_numero *)

RECURSIVE PrefijoDigitos(_)
PrefijoDigitos(t) ==
    IF t # <<>> /\ Head(t) \in Digitos
    THEN <<Head(t)>> \o PrefijoDigitos(Tail(t))
    ELSE <<>>

Resto(t, n) == SubSeq(t, n + 1, Len(t))

\* re.match(r'(\d+\.?\d*)', titulo): whether it matches, and its group 1
ReMatch(titulo) ==
    LET d1 == PrefijoDigitos(titulo)
        r1 == Resto(titulo, Len(d1))
        punto == IF r1 # <<>> /\ Head(r1) = "." THEN <<".">> ELSE <<>>
        d2 == PrefijoDigitos(Resto(r1, Len(punto)))
    IN IF d1 = <<>>
       THEN [ok |-> FALSE, grupo |-> <<>>]
       ELSE [ok |-> TRUE, grupo |-> d1 \o punto \o d2]

\* numero.replace('.', '').strip()
Normaliza(num) == Strip(Replace(num, "."))

\* The test of the for loop with the number compared as a prefix of the title
CoincidePrefijo(ep, numero_normalizado) ==
    /\ Len(ep.titulo) >= Len(numero_normalizado)
    /\ SubSeq(ep.titulo, 1, Len(numero_normalizado)) = numero_normalizado
    /\ ReMatch(ep.titulo).ok

\* The test of the for loop: the title's number is the one looked for
Coincide(ep, numero_normalizado) ==
    LET match == ReMatch(ep.titulo) IN
    /\ match.ok
    /\ Replace(match.grupo, ".") = numero_normalizado

\* The for loop: the index of the episode it returns, 0 when it ends without
RECURSIVE PrimeraCoincidencia(_, _, _)
PrimeraCoincidencia(eps, numero_normalizado, i) ==
    IF i > Len(eps) THEN 0
    ELSE IF Coincide(eps[i], numero_normalizado) THEN i
    ELSE PrimeraCoincidencia(eps, numero_normalizado, i + 1)

\* fecha_actual.replace(...): the first day of the next month
SiguienteMes(f) ==
    IF f[2] = 12 THEN <<f[1] + 1, 1, f[3]>> ELSE <<f[1], f[2] + 1, f[3]>>

NumerosBuscados ==
    {<<"1", "0", "9", "3", "9">>, <<" ", "1", "0", ".", "9", "3", "9", " ">>,
     <<"1", "0", "9", "3", "9", "0">>, <<"7">>}

\* One iteration of the while loop over the months: the walk of fecha_actual's
\* month and the for loop over its episodes
BuscarMes ==
    /\ pcBuscar = "mes"
    /\ DatetimeLe(fecha_actual, FECHA_FIN)
    /\ \E sitio \in Sitios :
         LET eps == obtener_episodios(fecha_actual[2], fecha_actual[1], sitio).episodios
             i == PrimeraCoincidencia(eps, Normaliza(numero), 1)
         IN /\ mesesRecorridos' = Append(mesesRecorridos, <<fecha_actual[1], fecha_actual[2]>>)
            /\ IF i > 0
               THEN /\ pcBuscar' = "hallado"
                    /\ resultado' = eps[i]
                    /\ listaHallada' = eps
                    /\ UNCHANGED <<fecha_actual, coincidenciaPrevia>>
               ELSE /\ fecha_actual' = SiguienteMes(fecha_actual)
                    /\ coincidenciaPrevia' =
                          (coincidenciaPrevia
                           \/ \E j \in 1..Len(eps) : Coincide(eps[j], Normaliza(numero)))
                    /\ UNCHANGED <<pcBuscar, resultado, listaHallada>>
    /\ UNCHANGED <<numero, walkVars, parseVars, fechaVars, listarVars, formatoVars, descargarVars>>

\* The while loop left with the window exhausted: return None
BuscarFin ==
    /\ pcBuscar = "mes"
    /\ ~DatetimeLe(fecha_actual, FECHA_FIN)
    /\ pcBuscar' = "no_hallado"
    /\ UNCHANGED <<numero, fecha_actual, resultado, mesesRecorridos, listaHallada,
                   coincidenciaPrevia>>
    /\ UNCHANGED <<walkVars, parseVars, fechaVars, listarVars, formatoVars, descargarVars>>

-----------------------------------------------------------------------------
(* The listar command *)

\* The values tried for --mes: click.IntRange(1, 12) accepts 1..12
MesesCli == 0..13

\* listar with the date check left out
ListarSinValidar(mes, anio, formato, sitio) ==
    LET w == obtener_episodios(mes, anio, sitio) IN
    IF w.episodios = <<>>
    THEN [salida |-> "sin_episodios", peticiones |-> w.peticiones]
    ELSE IF formatear_salida(w.episodios, formato).excepcion # ""
    THEN [salida |-> "error", peticiones |-> w.peticiones]
    ELSE [salida |-> "salida", peticiones |-> w.peticiones]

\* The body of listar: what it prints and the requests it issues
listar(mes, anio, formato, sitio) ==
    LET v == validar_fecha(mes, anio) IN
    IF v.excepcion # ""
    THEN [salida |-> "error", peticiones |-> 0]
    ELSE IF ~v.valor
    THEN [salida |-> "fuera_de_rango", peticiones |-> 0]
    ELSE LET w == obtener_episodios(mes, anio, sitio) IN
         IF w.episodios = <<>>
         THEN [salida |-> "sin_episodios", peticiones |-> w.peticiones]
         ELSE IF formatear_salida(w.episodios, formato).excepcion # ""
         THEN [salida |-> "error", peticiones |-> w.peticiones]
         ELSE [salida |-> "salida", peticiones |-> w.peticiones]

\* The command as click runs it: the options are converted first, and a --mes
\* outside IntRange(1, 12) ends the command with a usage error
Listar ==
    /\ salidaL = "pendiente"
    /\ \E mes \in MesesCli, anio \in Anios, formato \in Formatos, sitio \in Sitios :
         LET r == IF mes \notin 1..12
                  THEN [salida |-> "uso_invalido", peticiones |-> 0]
                  ELSE listar(mes, anio, formato, sitio)
         IN /\ argsL' = [mes |-> mes, anio |-> anio, formato |-> formato]
            /\ salidaL' = r.salida
            /\ peticionesL' = r.peticiones
    /\ UNCHANGED <<walkVars, parseVars, fechaVars, buscarVars, formatoVars, descargarVars>>

-----------------------------------------------------------------------------
(* Each part at rest *)

WalkIdle == page = 0 /\ episodios = <<>> /\ pcWalk = "idle" /\ fetchLog = <<>>

ParseIdle == item = ItemVacio /\ parsed = [ok |-> FALSE, error |-> "idle", ep |-> DictVacio]

FechaIdle == mesV = 0 /\ anioV = 0 /\ retV = [excepcion |-> "idle", valor |-> FALSE]

ListarIdle == argsL = <<>> /\ salidaL = "idle" /\ peticionesL = 0

BuscarIdle ==
    /\ numero = <<>> /\ fecha_actual = <<0, 0, 0>> /\ pcBuscar = "idle"
    /\ resultado = DictVacio /\ mesesRecorridos = <<>> /\ listaHallada = <<>>
    /\ coincidenciaPrevia = FALSE

FormatoIdle ==
    episodiosF = <<>> /\ formatoF = "idle" /\ salidaF = [excepcion |-> "idle", valor |-> FALSE]

DescargarIdle ==
    /\ archivos = DictVacio /\ peticionesD = 0 /\ ultima = DictVacio
    /\ descargados = {}

-----------------------------------------------------------------------------
(* Specifications *)

InitWalk ==
    /\ page = WalkInicial.page
    /\ episodios = WalkInicial.episodios
    /\ pcWalk = WalkInicial.pc
    /\ fetchLog = <<>>
    /\ ParseIdle /\ FechaIdle /\ ListarIdle /\ BuscarIdle /\ FormatoIdle /\ DescargarIdle

NextWalk == FetchPage

SpecWalk == InitWalk /\ [][NextWalk]_vars

InitParse ==
    /\ item \in Items
    /\ parsed = [ok |-> FALSE, error |-> "pendiente", ep |-> DictVacio]
    /\ WalkIdle /\ FechaIdle /\ ListarIdle /\ BuscarIdle /\ FormatoIdle /\ DescargarIdle

NextParse == Parse

SpecParse == InitParse /\ [][NextParse]_vars

InitFecha ==
    /\ mesV \in 1..12
    /\ anioV \in Anios
    /\ retV = Pendiente
    /\ WalkIdle /\ ParseIdle /\ ListarIdle /\ BuscarIdle /\ FormatoIdle /\ DescargarIdle

NextFecha == Validar

SpecFecha == InitFecha /\ [][NextFecha]_vars

InitFormato ==
    /\ episodiosF \in SeqsHasta(RegistrosMuestra, MaxRegistros)
    /\ formatoF \in Formatos
    /\ salidaF = Pendiente
    /\ WalkIdle /\ ParseIdle /\ FechaIdle /\ ListarIdle /\ BuscarIdle /\ DescargarIdle

NextFormato == Formatear

SpecFormato == InitFormato /\ [][NextFormato]_vars

InitDescargar ==
    /\ archivos \in [NumerosEpisodio -> EstadosArchivo]
    /\ peticionesD = 0
    /\ ultima = DictVacio
    /\ descargados = {}
    /\ WalkIdle /\ ParseIdle /\ FechaIdle /\ ListarIdle /\ BuscarIdle /\ FormatoIdle

NextDescargar == Descargar

SpecDescargar == InitDescargar /\ [][NextDescargar]_vars

InitBuscar ==
    /\ numero \in NumerosBuscados
    /\ fecha_actual = FECHA_INICIO
    /\ pcBuscar = "mes"
    /\ resultado = DictVacio
    /\ mesesRecorridos = <<>>
    /\ listaHallada = <<>>
    /\ coincidenciaPrevia = FALSE
    /\ WalkIdle /\ ParseIdle /\ FechaIdle /\ ListarIdle /\ FormatoIdle /\ DescargarIdle

NextBuscar == BuscarMes \/ BuscarFin

SpecBuscar == InitBuscar /\ [][NextBuscar]_vars

InitListar ==
    /\ argsL = <<>>
    /\ salidaL = "pendiente"
    /\ peticionesL = 0
    /\ WalkIdle /\ ParseIdle /\ FechaIdle /\ BuscarIdle /\ FormatoIdle /\ DescargarIdle

NextListar == Listar

SpecListar == InitListar /\ [][NextListar]_vars

-----------------------------------------------------------------------------
(* Properties of the pagination walk, under SpecWalk *)

\* The records of the first k pages fetched, page by page, item by item
Acumulado(k) == Concat([i \in 1..k |-> ParsePage(fetchLog[i].resp.items)])

EsPaginaVacia(r) == r.tipo = "ok" /\ r.items = <<>>

EsUltimaSinMarcador(r) == r.tipo = "ok" /\ r.items # <<>> /\ ~r.siguiente

EsFallo(r) == r.tipo \in {"error_transporte", "error_http"}

\* C1: when page k has no episode item, the walk has returned exactly the
\* records of pages 1..k-1, in order, and page k is the last page requested
\* (the pages requested are 1, 2, ... in turn).
C1_PaginaVaciaDetiene ==
    \A k \in 1..Len(fetchLog) :
        /\ fetchLog[k].page = k
        /\ EsPaginaVacia(fetchLog[k].resp) =>
              /\ k = Len(fetchLog)
              /\ pcWalk = "done"
              /\ episodios = Acumulado(k - 1)

C1_Witness ==
    /\ Len(fetchLog) = 2
    /\ EsPaginaVacia(fetchLog[2].resp)
    /\ fetchLog[2].resp.siguiente
    /\ Len(episodios) = 2

\* C2: when page k has items and no next-page marker, the walk has returned
\* the records of pages 1..k-1 followed by those of page k, and page k is the
\* last page requested.
C2_SinMarcadorDetiene ==
    \A k \in 1..Len(fetchLog) :
        EsUltimaSinMarcador(fetchLog[k].resp) =>
            /\ k = Len(fetchLog)
            /\ pcWalk = "done"
            /\ episodios = Acumulado(k - 1) \o ParsePage(fetchLog[k].resp.items)

C2_Witness ==
    /\ Len(fetchLog) = 2
    /\ EsUltimaSinMarcador(fetchLog[2].resp)
    /\ fetchLog[1].resp.items = <<ItemVacio, ItemMalformado>>
    /\ fetchLog[2].resp.items = <<ItemCompleto, ItemVacio>>
    /\ Len(episodios) = 3

\* C3: when the request of page k fails (transport error or non-success
\* status), the walk has returned normally (no exception) exactly the records
\* of pages 1..k-1, and page k is the last page requested.
C3_FalloDetiene ==
    \A k \in 1..Len(fetchLog) :
        EsFallo(fetchLog[k].resp) =>
            /\ k = Len(fetchLog)
            /\ pcWalk = "done"
            /\ episodios = Acumulado(k - 1)

C3_Witness ==
    /\ Len(fetchLog) = 2
    /\ fetchLog[2].resp.tipo = "error_http"
    /\ Len(episodios) = 2

\* C10, as claimed: a page that yields no parsed record (no item, or every
\* item skipped) stops the walk, whatever its next-page marker.
C10_Original ==
    \A k \in 1..Len(fetchLog) :
        (fetchLog[k].resp.tipo = "ok" /\ ParsePage(fetchLog[k].resp.items) = <<>>) =>
            k = Len(fetchLog) /\ pcWalk = "done"

\* C10, amended: the check made first is on the number of items found.  A page
\* with no item stops the walk even when it carries a next-page marker; a page
\* whose items were all skipped adds no record and the marker decides: with a
\* marker the next page is requested, without one the walk stops.
C10_CorteSobreItems ==
    \A k \in 1..Len(fetchLog) :
        LET r == fetchLog[k].resp IN
        /\ (EsPaginaVacia(r) /\ r.siguiente) => (k = Len(fetchLog) /\ pcWalk = "done")
        /\ (r.tipo = "ok" /\ r.items # <<>> /\ ParsePage(r.items) = <<>>) =>
              /\ Acumulado(k) = Acumulado(k - 1)
              /\ r.siguiente =>
                    \/ k < Len(fetchLog) /\ fetchLog[k + 1].page = k + 1
                    \/ k = Len(fetchLog) /\ pcWalk = "fetch" /\ page = k + 1
              /\ ~r.siguiente => (k = Len(fetchLog) /\ pcWalk = "done")

C10_Witness ==
    /\ Len(fetchLog) = 2
    /\ fetchLog[1].resp.items = <<ItemMalformado, ItemMalformado>>
    /\ fetchLog[1].resp.siguiente
    /\ fetchLog[2].page = 2

-----------------------------------------------------------------------------
(* Properties of the item parser, under SpecParse *)

ParseHecho == parsed.error \notin {"pendiente", "idle"}

\* C6, as claimed: an item with no data-setup attribute and none of the
\* optional sub-elements yields id "", title "Sin título", url "", date "" and
\* a record with neither a descripcion key nor a duracion key.
C6_Original ==
    (ParseHecho /\ item = ItemVacio) =>
        /\ parsed.ok
        /\ parsed.ep.id = <<>>
        /\ parsed.ep.titulo = <<"Sin título">>
        /\ parsed.ep.url = <<>>
        /\ parsed.ep.fecha = <<>>
        /\ "descripcion" \notin DOMAIN parsed.ep
        /\ "duracion" \notin DOMAIN parsed.ep

\* C6, amended: such an item yields id "", title "Sin título", url "", date "",
\* a duracion key holding the empty string, and no descripcion key.
C6_ItemVacio ==
    (ParseHecho /\ item = ItemVacio) =>
        /\ parsed.ok
        /\ parsed.ep.id = <<>>
        /\ parsed.ep.titulo = <<"Sin título">>
        /\ parsed.ep.url = <<>>
        /\ parsed.ep.fecha = <<>>
        /\ DOMAIN parsed.ep = {"id", "titulo", "url", "fecha", "duracion"}
        /\ parsed.ep.duracion = <<>>

C6_Witness == ParseHecho /\ item = ItemVacio /\ parsed.ok

-----------------------------------------------------------------------------
(* Properties of validar_fecha, under SpecFecha *)

\* The window 2008-02 .. 2021-06, both ends included, counted in months
EnVentana(mes, anio) ==
    /\ 2008 * 12 + 2 <= anio * 12 + mes
    /\ anio * 12 + mes <= 2021 * 12 + 6

\* C5: for a month 1..12 and any year, validar_fecha returns true exactly when
\* (year, month) is in the window 2008-02 .. 2021-06, ends included; for a
\* year datetime accepts it returns false outside the window.
C5_Ventana ==
    retV # Pendiente =>
        /\ (retV.excepcion = "" /\ retV.valor) <=> EnVentana(mesV, anioV)
        /\ anioV \in 1..9999 => retV.excepcion = ""
        /\ (mesV = 2 /\ anioV = 2008) => retV = Retorna(TRUE)
        /\ (mesV = 6 /\ anioV = 2021) => retV = Retorna(TRUE)
        /\ (mesV = 1 /\ anioV = 2008) => retV = Retorna(FALSE)
        /\ (mesV = 7 /\ anioV = 2021) => retV = Retorna(FALSE)

C5_Witness == mesV = 6 /\ anioV = 2021 /\ retV = Retorna(TRUE)

-----------------------------------------------------------------------------
(* Properties of formatear_salida, under SpecFormato *)

\* C7: in the csv format the empty sequence gives the empty string, and every
\* non-empty sequence (also one in which a later record has a field the first
\* lacks) gives, without an error, a header row of the first record's field
\* names followed by one data row per record.
C7_Csv ==
    (salidaF # Pendiente /\ formatoF = "csv") =>
        /\ salidaF.excepcion = ""
        /\ episodiosF = <<>> => salidaF.valor = <<>>
        /\ episodiosF # <<>> =>
              /\ Len(salidaF.valor) = 1 + Len(episodiosF)
              /\ salidaF.valor[1] =
                    [j \in 1..Len(Claves(episodiosF[1])) |-> <<Claves(episodiosF[1])[j]>>]

-----------------------------------------------------------------------------
(* Properties of descargar_episodio, under SpecDescargar *)

\* C9: a call made when the file of that episode number is already in the
\* cache directory issues no request, leaves the directory as it was and
\* returns the path of that file; so a call for a number already downloaded
\* with success issues no request and returns the same path.
C9_YaDescargado ==
    ultima # DictVacio =>
        /\ ultima.existia =>
              /\ ultima.peticiones = 0
              /\ archivos = ultima.archivosAntes
              /\ ultima.ret = Retorna(Ruta(ultima.numero))
        /\ ultima.descargadoAntes => ultima.existia
        /\ \A num \in descargados : archivos[num] = "completo"

C9_Witness ==
    /\ ultima # DictVacio
    /\ ultima.descargadoAntes
    /\ ultima.peticiones = 0
    /\ peticionesD = 1
    /\ ultima.ret = Retorna(Ruta(ultima.numero))

-----------------------------------------------------------------------------
(* Properties of buscar_episodio_por_numero, under SpecBuscar *)

\* The months 2008-02 .. 2021-06 in chronological order
MesesVentana ==
    [i \in 1..161 |-> LET idx == 2008 * 12 + i IN <<idx \div 12, (idx % 12) + 1>>]

\* The titles of the sample that carry the number looked for
TitulosEsperados(num) ==
    IF num \in {<<"1", "0", "9", "3", "9">>, <<" ", "1", "0", ".", "9", "3", "9", " ">>}
    THEN {TituloA, TituloC}
    ELSE IF num = <<"1", "0", "9", "3", "9", "0">> THEN {TituloB}
    ELSE {}

\* C4: the months walked are 2008-02, 2008-03, ... in order; the record
\* returned is the first one, in the list of the month being walked, whose
\* title carries the number looked for ("10939" is carried by "10939. Some
\* Show" and not by "109390. Other Show"), no record of an earlier month
\* carried it, and None is returned only with all 161 months walked.
C4_Busqueda ==
    /\ Len(mesesRecorridos) <= 161
    /\ mesesRecorridos = SubSeq(MesesVentana, 1, Len(mesesRecorridos))
    /\ ~coincidenciaPrevia
    /\ \A t \in {TituloA, TituloB, TituloC, SinTitulo} :
          Coincide([titulo |-> t], Normaliza(numero)) <=> t \in TitulosEsperados(numero)
    /\ pcBuscar = "mes" =>
          /\ resultado = DictVacio
          /\ Len(mesesRecorridos) < 161 =>
                <<fecha_actual[1], fecha_actual[2]>> = MesesVentana[Len(mesesRecorridos) + 1]
    /\ pcBuscar = "hallado" =>
          \E i \in 1..Len(listaHallada) :
             /\ resultado = listaHallada[i]
             /\ resultado.titulo \in TitulosEsperados(numero)
             /\ \A j \in 1..(i - 1) : listaHallada[j].titulo \notin TitulosEsperados(numero)
    /\ pcBuscar = "no_hallado" =>
          /\ resultado = DictVacio
          /\ Len(mesesRecorridos) = 161

C4_Witness ==
    /\ pcBuscar = "hallado"
    /\ numero = <<"1", "0", "9", "3", "9">>
    /\ Len(mesesRecorridos) = 161
    /\ Len(listaHallada) = 3
    /\ listaHallada[1].titulo = TituloB
    /\ resultado = listaHallada[2]

-----------------------------------------------------------------------------
(* Properties of the listar command, under SpecListar *)

=============================================================================
